---- MODULE Spec2Model ----
(***************************************************************************)
(* Interactive Voronoi diagram (script.js): a point store, the keyed data  *)
(* join that reconciles the rendered paths and circles with it, the area   *)
(* colour scale, and the click / reset handlers that drive recomputation.  *)
(*                                                                         *)
(* Coordinates are lattice points of the canvas [0,width] x [0,height].    *)
(* The Voronoi primitive of d3-delaunay is modelled on the unit pixels of  *)
(* the canvas: a cell is the set of pixels whose centre is at least as     *)
(* near to its seed as to any other seed, its area the number of them.     *)
(***************************************************************************)
EXTENDS Integers, Sequences, FiniteSets, TLC

VARIABLES points,   \* let points = []                       (script.js:7)
          paths,    \* children of cellLayer, document order (script.js:10)
          circles,  \* children of pointLayer                (script.js:11)
          domain,   \* colorScale.domain()                   (script.js:15)
          tooltip,  \* the tooltip div                      (script.js:19)
          out,      \* what the last handler threw or offered for download
          ev,       \* the event whose handler ran last
          prev,     \* points / paths / circles / domain before that handler
          base      \* state before the add of an add-then-remove pair

vars == <<points, paths, circles, domain, tooltip, out, ev, prev, base>>

\* Bounds of the model.
MaxPoints == 3
width == 2
height == 1

\* .attr("r", 5)
Radius == 5

\* ------------------------------------------------------------------------
\* Small helpers

MinOf(S) == CHOOSE x \in S : \A y \in S : x <= y
MaxOf(S) == CHOOSE x \in S : \A y \in S : y <= x

\* Pointer positions the clicks are drawn from: the four corners of the canvas
\* and a point off the corners.
Positions == {<<0, 0>>, <<width, 0>>, <<0, height>>, <<width, height>>, <<1, 1>>}
Pixels == (0..(width - 1)) \X (0..(height - 1))

\* Array.prototype.push
push(arr, v) == Append(arr, v)

\* Array.prototype.splice(start, deleteCount), 0-based start, returning the
\* array left behind.  A start beyond the end deletes nothing; a negative
\* start counts from the end.
splice(arr, start, deleteCount) ==
  LET len  == Len(arr)
      from == IF start < 0 THEN (IF len + start < 0 THEN 0 ELSE len + start)
              ELSE (IF start > len THEN len ELSE start)
      cnt  == IF deleteCount < 0 THEN 0
              ELSE IF deleteCount > len - from THEN len - from ELSE deleteCount
  IN  [i \in 1..(len - cnt) |-> IF i <= from THEN arr[i] ELSE arr[i + cnt]]

\* ------------------------------------------------------------------------
\* Geometry: d3.Delaunay.from(points).voronoi([0, 0, width, height])

\* Squared distance, in half units, from a seed to the centre of a pixel.
Dist2(pt, px) ==
  (2 * pt[1] - (2 * px[1] + 1)) * (2 * pt[1] - (2 * px[1] + 1))
  + (2 * pt[2] - (2 * px[2] + 1)) * (2 * pt[2] - (2 * px[2] + 1))

NullCell == [ok |-> FALSE, px |-> {}]

\* A seed that coincides with an earlier one is left out of the triangulation.
Coincident(pts, index) == \E j \in 1..index : pts[j] = pts[index + 1]

\* The cell of seed `index` (0-based) among the seeds pts, clipped to the
\* canvas; null for a seed left out of the triangulation.
cellOf(pts, index) ==
  IF Coincident(pts, index) THEN NullCell
  ELSE [ok |-> TRUE,
        px |-> {q \in Pixels : \A j \in 1..Len(pts) :
                   Dist2(pts[index + 1], q) <= Dist2(pts[j], q)}]

\* The point arrays the store can hold.
PointSeqs == UNION {[1..n -> Positions] : n \in 0..MaxPoints}

\* const voronoi = delaunay.voronoi([0, 0, width, height]): the diagram is a
\* function of the point array alone, tabulated here once.
voronoi == [pts \in PointSeqs |-> [i \in 1..Len(pts) |-> cellOf(pts, i - 1)]] @@ <<>>

\* voronoi.cellPolygon(index): the cell clipped to the canvas, or null.
cellPolygon(pts, index) == voronoi[pts][index + 1]

\* voronoi.renderCell(index): the path data of the cell; nothing for a null
\* cell, and attr("d", undefined) then leaves the attribute unset.
renderCell(pts, index) == cellPolygon(pts, index)

\* function calculateArea(polygon)
calculateArea(polygon) == Cardinality(polygon.px)

\* const pointsWithIndex = points.map((point, index) => ({ point, index }))
pointsWithIndex(pts) == [i \in 1..Len(pts) |-> [point |-> pts[i], index |-> i - 1]]

\* A seed without a cell is given the area of the cell of the seed it
\* coincides with.
cellAreasOfTwin(pts) ==
  [i \in 1..Len(pts) |->
     LET twin == MinOf({j \in 1..i : pts[j] = pts[i]})
     IN  calculateArea(cellPolygon(pts, twin - 1))]

\* const cellAreas = pointsWithIndex.map(d => ...); cellAreas[i] of the code
\* is cellAreas(pts)[i + 1] here.
cellAreas(pts) ==
  [i \in 1..Len(pts) |->
     LET cell == cellPolygon(pts, pointsWithIndex(pts)[i].index)
     IN  IF cell.ok THEN calculateArea(cell) ELSE 0]

\* d3.min / d3.max of a non-empty array of numbers
d3min(arr) == MinOf({arr[i] : i \in 1..Len(arr)})
d3max(arr) == MaxOf({arr[i] : i \in 1..Len(arr)})

\* ------------------------------------------------------------------------
\* Colour

\* The domain is set to the extremes also when they are equal.
scaleDomainCollapsed(minArea, maxArea) == <<minArea, maxArea>>

\* if (minArea < maxArea) colorScale.domain([minArea, maxArea])
\* else colorScale.domain([minArea, minArea + 1])
scaleDomain(minArea, maxArea) ==
  IF minArea < maxArea THEN <<minArea, maxArea>> ELSE <<minArea, minArea + 1>>

\* colorScale(x): linear map of the domain onto [0, 1], as a fraction
\* <<numerator, denominator>>.
colorScale(dom, x) == <<x - dom[1], dom[2] - dom[1]>>

One == <<1, 1>>

\* d3.interpolateHsl("hsl(0, 60%, 70%)", "hsl(120, 60%, 70%)")(t), the hue in
\* whole degrees.
colorInterpolator(t) == [h |-> (120 * t[1]) \div t[2], s |-> 60, l |-> 70]

\* The fill callback at the tie: the clamp is left out.
fillColorNoClamp(dom, areas, minArea, maxArea, i) ==
  colorInterpolator(colorScale(dom, areas[i + 1]))

\* minArea === maxArea ? 1 : scaledValue -- the value the fill callback
\* passes to the interpolator.
fillValue(dom, areas, minArea, maxArea, i) ==
  LET scaledValue == colorScale(dom, areas[i + 1])
  IN  IF minArea = maxArea THEN One ELSE scaledValue

\* .attr("fill", (d, i) => colorInterpolator(minArea === maxArea ? 1 : scaledValue))
fillColor(dom, areas, minArea, maxArea, i) ==
  colorInterpolator(fillValue(dom, areas, minArea, maxArea, i))

\* ------------------------------------------------------------------------
\* The keyed data join: selection.data(pointsWithIndex, d => d.index)

\* Position in the group of the first node whose bound datum has this key, or
\* 0; later nodes with the same key go to the exit selection.
nodeByKeyValue(group, key) ==
  LET js == {j \in 1..Len(group) : group[j].data.index = key}
  IN  IF js = {} THEN 0 ELSE MinOf(js)

\* Position in the group of the node joined to datum i (1-based), or 0 when
\* the datum enters.  A datum whose key an earlier datum already took enters.
joined(group, data, i) ==
  IF \E h \in 1..(i - 1) : data[h].index = data[i].index THEN 0
  ELSE nodeByKeyValue(group, data[i].index)

\* Positions of the data that join a node (the update selection) and of the
\* data that do not (the enter selection), ascending.
RECURSIVE Ascending(_)
Ascending(S) ==
  IF S = {} THEN <<>> ELSE LET m == MinOf(S) IN <<m>> \o Ascending(S \ {m})

\* The join keeps the datum each node was created with.
updateSelectionNoRebind(group, data) ==
  LET kept == {j \in 1..Len(group) : \E i \in 1..Len(data) : joined(group, data, i) = j}
      at(j) == CHOOSE i \in 1..Len(data) : joined(group, data, i) = j
  IN  [n \in 1..Cardinality(kept) |->
         LET j == Ascending(kept)[n]
         IN  [i |-> at(j) - 1, node |-> group[j]]]

\* The update selection, in document order of its nodes: the datum position i
\* and the node, its __data__ rebound to the new datum.
updateSelection(group, data) ==
  LET kept == {j \in 1..Len(group) : \E i \in 1..Len(data) : joined(group, data, i) = j}
      at(j) == CHOOSE i \in 1..Len(data) : joined(group, data, i) = j
  IN  [n \in 1..Cardinality(kept) |->
         LET j == Ascending(kept)[n]
         IN  [i |-> at(j) - 1, node |-> [group[j] EXCEPT !.data = data[at(j)]]]]

\* The enter selection: the data positions (0-based i) with no node.
enterSelection(group, data) ==
  LET S == {i \in 1..Len(data) : joined(group, data, i) = 0}
  IN  [n \in 1..Cardinality(S) |-> Ascending(S)[n] - 1]

\* Identity of the n-th DOM node created while the nodes `used` exist.
FreshNode(used, n) ==
  LET cand == (1..(Cardinality(used) + n)) \ used
  IN  CHOOSE x \in cand : Cardinality({y \in cand : y < x}) = n - 1

NodeIds(group) == {group[j].id : j \in 1..Len(group)}

\* ------------------------------------------------------------------------
\* drawVoronoi

\* The update block sets the geometry and leaves the fill as it was.
updatePathKeepFill(pts, dom, areas, minArea, maxArea, u) ==
  [u.node EXCEPT !.d = renderCell(pts, u.node.data.index),
                 !.stroke = "#000",
                 !.over = areas]

\* Update of a joined path: d, fill, stroke and the hover handlers, whose
\* closure holds the cellAreas of this recomputation.
updatePath(pts, dom, areas, minArea, maxArea, u) ==
  [u.node EXCEPT !.d = renderCell(pts, u.node.data.index),
                 !.fill = fillColor(dom, areas, minArea, maxArea, u.i),
                 !.stroke = "#000",
                 !.over = areas]

\* The copy of the fill callback in the enter block has lost the clamp.
enterPathNoClamp(pts, dom, areas, minArea, maxArea, i, data, id) ==
  [id |-> id, data |-> data[i + 1],
   d |-> renderCell(pts, data[i + 1].index),
   fill |-> fillColorNoClamp(dom, areas, minArea, maxArea, i),
   stroke |-> "#000",
   over |-> areas]

\* cellPaths.enter().append("path") with the same attributes and handlers.
enterPath(pts, dom, areas, minArea, maxArea, i, data, id) ==
  [id |-> id, data |-> data[i + 1],
   d |-> renderCell(pts, data[i + 1].index),
   fill |-> fillColor(dom, areas, minArea, maxArea, i),
   stroke |-> "#000",
   over |-> areas]

\* The update block of the circles is missing: a joined circle keeps cx, cy.
updateCircleStale(u) == u.node

\* circles.attr("cx", d => d.point[0]).attr("cy", d => d.point[1])
updateCircle(u) ==
  [u.node EXCEPT !.cx = u.node.data.point[1], !.cy = u.node.data.point[2]]

\* circles.enter().append("circle") ... .on("click", ...)
enterCircle(i, data, id) ==
  [id |-> id, data |-> data[i + 1],
   cx |-> data[i + 1].point[1], cy |-> data[i + 1].point[2],
   r |-> Radius, click |-> "remove"]

\* cellPaths.exit().remove() is left out: exiting nodes stay in the layer,
\* after the joined ones.
exitRemoveNone(group, data) ==
  LET gone == {j \in 1..Len(group) : \A i \in 1..Len(data) : joined(group, data, i) # j}
  IN  [n \in 1..Cardinality(gone) |-> group[Ascending(gone)[n]]]

\* selection.exit().remove(): the nodes of the exit selection that stay in
\* the layer -- none.
exitRemove(group, data) == <<>>

\* The body of drawVoronoi below the early return, on the nodes found in the
\* two layers; usedP / usedC are the DOM nodes that exist when it runs.
reconcile(pts, ps, cs, dom, usedP, usedC) ==
  LET data    == pointsWithIndex(pts)
      areas   == cellAreas(pts)
      minArea == d3min(areas)
      maxArea == d3max(areas)
      newDom  == scaleDomain(minArea, maxArea)
      updP    == updateSelection(ps, data)
      entP    == enterSelection(ps, data)
      updC    == updateSelection(cs, data)
      entC    == enterSelection(cs, data)
  IN  [paths   |-> [n \in 1..Len(updP) |->
                      updatePath(pts, newDom, areas, minArea, maxArea, updP[n])]
                   \o exitRemove(ps, data)
                   \o [n \in 1..Len(entP) |->
                         enterPath(pts, newDom, areas, minArea, maxArea, entP[n],
                                   data, FreshNode(usedP, n))],
       circles |-> [n \in 1..Len(updC) |-> updateCircle(updC[n])]
                   \o exitRemove(cs, data)
                   \o [n \in 1..Len(entC) |->
                         enterCircle(entC[n], data, FreshNode(usedC, n))],
       domain  |-> newDom]

\* Every recomputation clears both layers and draws all nodes anew.
drawVoronoiFromScratch(pts, ps, cs, dom) ==
  IF Len(pts) = 0
  THEN [paths |-> <<>>, circles |-> <<>>, domain |-> dom]
  ELSE reconcile(pts, <<>>, <<>>, dom, NodeIds(ps), NodeIds(cs))

\* function drawVoronoi(): with no points both layers are cleared and the
\* scale is left alone; otherwise the layers are reconciled with the points.
drawVoronoi(pts, ps, cs, dom) ==
  IF Len(pts) = 0
  THEN [paths |-> <<>>, circles |-> <<>>, domain |-> dom]
  ELSE reconcile(pts, ps, cs, dom, NodeIds(ps), NodeIds(cs))

\* ------------------------------------------------------------------------
\* Handlers.  Each returns the point store and the layers it leaves behind.

Page(pts, ps, cs, dom) == [points |-> pts, paths |-> ps, circles |-> cs, domain |-> dom]

Drawn(pts, ps, cs, dom) ==
  LET r == drawVoronoi(pts, ps, cs, dom)
  IN  Page(pts, r.paths, r.circles, r.domain)

\* The svg listener refuses a position the store already holds.
svgOnClickNoDup(pg, tag, xy) ==
  IF tag # "circle" /\ \A k \in 1..Len(pg.points) : pg.points[k] # xy
  THEN Drawn(push(pg.points, xy), pg.paths, pg.circles, pg.domain)
  ELSE pg

\* svg.on("click", ...): adds the pointer position unless the target is a
\* circle.
svgOnClick(pg, tag, xy) ==
  IF tag # "circle"
  THEN Drawn(push(pg.points, xy), pg.paths, pg.circles, pg.domain)
  ELSE pg

\* The handler removes the point and forgets to call drawVoronoi().
circleOnClickNoDraw(pg, d) ==
  Page(splice(pg.points, d.index, 1), pg.paths, pg.circles, pg.domain)

\* The handler removes the first point whatever the datum says.
circleOnClickShift(pg, d) ==
  Drawn(splice(pg.points, 0, 1), pg.paths, pg.circles, pg.domain)

\* The handler deletes from d.index to the end of the array.
circleOnClickToEnd(pg, d) ==
  Drawn(splice(pg.points, d.index, Len(pg.points)), pg.paths, pg.circles, pg.domain)

\* circle .on("click", function(event, d) {...}): d is the datum bound to the
\* circle when the event is dispatched.
circleOnClick(pg, d) ==
  Drawn(splice(pg.points, d.index, 1), pg.paths, pg.circles, pg.domain)

\* A click dispatched on a circle: its own listener runs and stops the
\* propagation; an event that is not stopped bubbles to the svg listener.
clickOnCircle(pg, node) ==
  LET hasListener == node.click = "remove"
      stopped     == hasListener
      after       == IF hasListener THEN circleOnClick(pg, node.data) ELSE pg
  IN  IF stopped THEN after
      ELSE svgOnClick(after, "circle", <<node.cx, node.cy>>)

\* The reset handler empties the store and forgets to call drawVoronoi().
resetOnClickNoDraw(pg) == Page(<<>>, pg.paths, pg.circles, pg.domain)

\* resetButton click: points = []; drawVoronoi()
resetOnClick(pg) == Drawn(<<>>, pg.paths, pg.circles, pg.domain)

\* ------------------------------------------------------------------------
\* Hover

\* A JavaScript value that may be undefined.
Undefined == [def |-> FALSE, v |-> 0]
Defined(v) == [def |-> TRUE, v |-> v]

\* arr[i] for a JavaScript index i: undefined when i is not an index of arr.
elementAt(arr, i) ==
  IF i.def /\ i.v \in 0..(Len(arr) - 1) THEN Defined(arr[i.v + 1]) ELSE Undefined

\* Number.prototype.toFixed(2) of a whole number: its digits and two zero
\* decimals.
toFixed2(x) == <<x, ".", 0, 0>>

\* .on("mouseover", function(event, d, i) {...}) of a path, whose closure
\* holds cellAreas: cellAreas[i].toFixed(2) throws a TypeError when
\* cellAreas[i] is undefined, before the tooltip is touched.
pathOnMouseover(tt, areas, d, i) ==
  LET a == elementAt(areas, i)
  IN  IF ~a.def
      THEN [tooltip |-> tt, err |-> "TypeError"]
      ELSE [tooltip |-> [visibility |-> "visible",
                         text |-> <<"Area: ">> \o toFixed2(a.v)],
            err |-> "none"]

\* A mouseover dispatched on a path: d3 calls the listener with the event
\* and the datum bound to the node, listener.call(this, event, this.__data__),
\* so the listener's third parameter is undefined.
mouseoverOnPath(tt, node) == pathOnMouseover(tt, node.over, node.data, Undefined)

\* ------------------------------------------------------------------------
\* Export

SvgNs == "http://www.w3.org/2000/svg"
XlinkNs == "http://www.w3.org/1999/xlink"

Attr(name, value) == [name |-> name, value |-> value]

\* The attributes the page gives the canvas: select("#voronoiCanvas"),
\* attr("width"), attr("height").
CanvasAttrs ==
  <<Attr("id", "voronoiCanvas"), Attr("width", ToString(width)),
    Attr("height", ToString(height))>>

\* The root tags the serializer can write for the canvas: its attributes,
\* after the namespace declarations the serializer emits -- none, either or
\* both, in either order.
RootTags ==
  {decls \o CanvasAttrs :
     decls \in {<<>>, <<Attr("xmlns", SvgNs)>>, <<Attr("xmlns:xlink", XlinkNs)>>,
                <<Attr("xmlns", SvgNs), Attr("xmlns:xlink", XlinkNs)>>,
                <<Attr("xmlns:xlink", XlinkNs), Attr("xmlns", SvgNs)>>}}

\* new XMLSerializer().serializeToString(svg.node()): the root tag and, in
\* the two layers, the rendered paths and circles.
serializeToString(root, pg) ==
  [root  |-> root,
   cells |-> [n \in 1..Len(pg.paths) |->
                [d |-> pg.paths[n].d, fill |-> pg.paths[n].fill,
                 stroke |-> pg.paths[n].stroke]],
   marks |-> [n \in 1..Len(pg.circles) |->
                [cx |-> pg.circles[n].cx, cy |-> pg.circles[n].cy,
                 r |-> pg.circles[n].r]]]

\* source.match(/^<svg[^>]+xmlns="http\:\/\/www\.w3\.org\/2000\/svg"/)
matchesSvgNs(root) ==
  \E n \in 1..Len(root) : root[n].name = "xmlns" /\ root[n].value = SvgNs

\* source.match(/^<svg[^>]+"http\:\/\/www\.w3\.org\/1999\/xlink"/): any
\* attribute of the root tag with this value.
matchesXlinkNs(root) ==
  \E n \in 1..Len(root) : root[n].value = XlinkNs

\* source.replace(/^<svg/, '<svg name="value"'): the attribute goes first.
injectAttr(root, attr) == <<attr>> \o root

\* Both declarations are injected without looking at the source.
addNamespacesAlways(root) ==
  injectAttr(injectAttr(root, Attr("xmlns", SvgNs)), Attr("xmlns:xlink", XlinkNs))

\* // Add name spaces: each is injected if its pattern does not match.
addNamespaces(root) ==
  LET withSvg == IF ~matchesSvgNs(root)
                 THEN injectAttr(root, Attr("xmlns", SvgNs)) ELSE root
  IN  IF ~matchesXlinkNs(withSvg)
      THEN injectAttr(withSvg, Attr("xmlns:xlink", XlinkNs)) ELSE withSvg

XmlDeclaration == "<?xml version=\"1.0\" standalone=\"no\"?>\r\n"

\* The export handler serializes after emptying the two layers.
exportOnClickStripped(pg, root) ==
  LET bare   == Page(pg.points, <<>>, <<>>, pg.domain)
      source == serializeToString(root, bare)
  IN  [page |-> bare,
       download |-> [filename |-> "voronoi_cells.svg",
                     type |-> "image/svg+xml;charset=utf-8",
                     prolog |-> XmlDeclaration,
                     svg |-> [source EXCEPT !.root = addNamespaces(source.root)]]]

\* exportButton click: serialize the canvas, add the namespaces and the XML
\* declaration, and offer the text as a download through a temporary link.
exportOnClick(pg, root) ==
  LET source == serializeToString(root, pg)
  IN  [page |-> pg,
       download |-> [filename |-> "voronoi_cells.svg",
                     type |-> "image/svg+xml;charset=utf-8",
                     prolog |-> XmlDeclaration,
                     svg |-> [source EXCEPT !.root = addNamespaces(source.root)]]]

\* ------------------------------------------------------------------------
\* State machine

NoOutput == [err |-> "none", source |-> <<>>, download |-> <<>>]

Now == Page(points, paths, circles, domain)

NoBase == [set |-> FALSE, page |-> Page(<<>>, <<>>, <<>>, <<0, 1>>)]

Event(kind, tag, key, obj, xy) ==
  [kind |-> kind, tag |-> tag, key |-> key, obj |-> obj, xy |-> xy]

\* The handler has run to completion and left page pg; it threw nothing,
\* offered no download and did not touch the tooltip.
Ran(pg, e, b) ==
  \E p \in {pg} :
  /\ points' = p.points
  /\ paths' = p.paths
  /\ circles' = p.circles
  /\ domain' = p.domain
  /\ tooltip' = tooltip
  /\ out' = NoOutput
  /\ ev' = e
  /\ prev' = Now
  /\ base' = b

\* The script has loaded: no points, d3.scaleLinear()'s default domain, and
\* the initial drawVoronoi() has returned early.
Init ==
  /\ points = <<>>
  /\ paths = <<>>
  /\ circles = <<>>
  /\ domain = <<0, 1>>
  /\ tooltip = [visibility |-> "hidden", text |-> <<>>]
  /\ out = NoOutput
  /\ ev = Event("load", "none", -1, 0, <<0, 0>>)
  /\ prev = Page(<<>>, <<>>, <<>>, <<0, 1>>)
  /\ base = NoBase

\* A click whose target is the svg itself or one of the paths.
CanvasClick ==
  /\ Len(points) < MaxPoints
  /\ \E tag \in {"svg"} \cup (IF Len(paths) > 0 THEN {"path"} ELSE {}) :
       \E xy \in Positions :
         Ran(svgOnClick(Now, tag, xy), Event("canvas", tag, -1, 0, xy), NoBase)

\* A click whose target is a rendered circle.
MarkerClick ==
  \E j \in 1..Len(circles) :
    LET node == circles[j]
        justAdded == ev.kind = "canvas" /\ node.id \notin NodeIds(prev.circles)
    IN  Ran(clickOnCircle(Now, node),
            Event("marker", "circle", node.data.index, node.id, <<node.cx, node.cy>>),
            IF justAdded THEN [set |-> TRUE, page |-> prev] ELSE NoBase)

\* The click listener of the circle clicked last runs once more: on the datum
\* now bound to it if it is still in the layer, on the datum it kept if the
\* recomputation removed it.
MarkerClickAgain ==
  /\ ev.kind \in {"marker", "again"}
  /\ LET at == {j \in 1..Len(circles) : circles[j].id = ev.obj}
         d  == IF at = {} THEN [index |-> ev.key]
               ELSE circles[CHOOSE j \in at : TRUE].data
     IN  Ran(circleOnClick(Now, d),
             Event("again", "circle", d.index, ev.obj, ev.xy), NoBase)

\* The pointer moves onto a rendered region.
Hover ==
  \E j \in 1..Len(paths) :
    /\ paths[j].d.ok
    /\ LET node == paths[j]
           r    == mouseoverOnPath(tooltip, node)
       IN  /\ tooltip' = r.tooltip
           /\ out' = [NoOutput EXCEPT !.err = r.err]
           /\ ev' = Event("hover", "path", node.data.index, node.id, <<0, 0>>)
           /\ prev' = Now
           /\ base' = NoBase
           /\ UNCHANGED <<points, paths, circles, domain>>

\* The export button.
Export ==
  \E root \in RootTags :
    LET r == exportOnClick(Now, root)
    IN  /\ points' = r.page.points
        /\ paths' = r.page.paths
        /\ circles' = r.page.circles
        /\ domain' = r.page.domain
        /\ tooltip' = tooltip
        /\ out' = [err |-> "none", source |-> <<root>>, download |-> <<r.download>>]
        /\ ev' = Event("export", "button", -1, 0, <<0, 0>>)
        /\ prev' = Now
        /\ base' = NoBase

\* The reset button.
Reset ==
  Ran(resetOnClick(Now), Event("reset", "button", -1, 0, <<0, 0>>), NoBase)

\* drawVoronoi() called again with the point store as it is.
Redraw ==
  Ran(Drawn(points, paths, circles, domain),
      Event("redraw", "none", -1, 0, <<0, 0>>), NoBase)

Next == CanvasClick \/ MarkerClick \/ MarkerClickAgain \/ Reset \/ Redraw \/ Hover
          \/ Export

Spec == Init /\ [][Next]_vars

\* ------------------------------------------------------------------------
\* Vocabulary of the properties

\* arr without its k-th element (1-based).
RemoveAt(arr, k) == [i \in 1..(Len(arr) - 1) |-> IF i < k THEN arr[i] ELSE arr[i + 1]]

Count(arr, v) == Cardinality({i \in 1..Len(arr) : arr[i] = v})

Keys(group) == {group[n].data.index : n \in 1..Len(group)}

\* What is rendered, per key: geometry and fill of the regions, position of
\* the markers.
PathView(ps) ==
  {[key |-> ps[n].data.index, d |-> ps[n].d, fill |-> ps[n].fill] : n \in 1..Len(ps)}
CircleView(cs) ==
  {[key |-> cs[n].data.index, cx |-> cs[n].cx, cy |-> cs[n].cy] : n \in 1..Len(cs)}

\* One node per key 0..n-1 in the layer.
OnePerKey(group, n) ==
  /\ Len(group) = n
  /\ Keys(group) = 0..(n - 1)

AllAreasEqual(pts) ==
  \A i, j \in 1..Len(pts) : cellAreas(pts)[i] = cellAreas(pts)[j]

\* The nodes of the layer rendered under a key.
NodesAt(group, key) == {group[n].id : n \in {m \in 1..Len(group) : group[m].data.index = key}}

\* Across a recomputation each key present before and after is rendered by
\* the same node, and a key new to it by a node that did not exist before.
NodesPersist(before, after) ==
  \A key \in Keys(after) :
    IF key \in Keys(before)
    THEN NodesAt(after, key) = NodesAt(before, key)
    ELSE NodesAt(after, key) \cap NodeIds(before) = {}

\* ------------------------------------------------------------------------
\* C1: a click on a rendered marker removes exactly the point whose
\* coordinates are the cx / cy the marker showed when it was clicked, and
\* leaves the other points in their previous order.
C1_MarkerClickRemovesShownPoint ==
  ev.kind = "marker" =>
    \E k \in 1..Len(prev.points) :
      /\ prev.points[k] = ev.xy
      /\ points = RemoveAt(prev.points, k)

\* A marker that is not the last one is clicked in a store of three distinct
\* points.
C1_Witness ==
  /\ ev.kind = "marker"
  /\ Len(prev.points) = 3
  /\ ev.key = 0
  /\ \A i, j \in 1..3 : i # j => prev.points[i] # prev.points[j]
  /\ points = <<prev.points[2], prev.points[3]>>

\* C2: after every command the render is reconciled with the store: one
\* region and one marker per stored point, keys exactly 0..n-1, and the
\* marker with key i positioned at points[i].
C2_Reconciled ==
  /\ OnePerKey(paths, Len(points))
  /\ OnePerKey(circles, Len(points))
  /\ \A n \in 1..Len(circles) :
       <<circles[n].cx, circles[n].cy>> = points[circles[n].data.index + 1]

\* Two points are left after a marker click removed the first of three.
C2_Witness ==
  /\ ev.kind = "marker"
  /\ ev.key = 0
  /\ Len(points) = 2
  /\ points[1] # points[2]
  /\ Len(paths) = 2
  /\ Len(circles) = 2

\* C3: a click on a marker never also appends a point: once the event is
\* dispatched the store holds exactly one point fewer and no point that was
\* not there before.
C3_MarkerClickNeverAdds ==
  ev.kind = "marker" =>
    /\ Len(points) = Len(prev.points) - 1
    /\ \A k \in 1..Len(points) :
         Count(points, points[k]) <= Count(prev.points, points[k])

\* The first marker of a store of two or more points has been clicked; the
\* position clicked is no longer in the store.
C3_Witness ==
  /\ ev.kind = "marker"
  /\ ev.key = 0
  /\ Len(prev.points) >= 2
  /\ Len(points) = Len(prev.points) - 1
  /\ Count(points, ev.xy) = 0

\* C4: a click that does not originate on a marker appends the click
\* coordinates as the new last element, also when they equal a stored point;
\* the stored points keep values and indices, and the recomputation that
\* follows renders a marker for the new point and refits the scale.
C4_CanvasClickAppends ==
  ev.kind = "canvas" =>
    /\ points = Append(prev.points, ev.xy)
    /\ \E n \in 1..Len(circles) :
         /\ circles[n].data.index = Len(prev.points)
         /\ <<circles[n].cx, circles[n].cy>> = ev.xy
    /\ Len(prev.points) \in Keys(paths)
    /\ domain = scaleDomain(d3min(cellAreas(points)), d3max(cellAreas(points)))

\* A click on a rendered region at the coordinates of a stored point.
C4_Witness ==
  /\ ev.kind = "canvas"
  /\ ev.tag = "path"
  /\ \E k \in 1..Len(prev.points) : prev.points[k] = ev.xy
  /\ Len(points) = Len(prev.points) + 1
  /\ points[Len(points)] = ev.xy

\* C5: reset leaves the store empty and the surface with no region and no
\* marker, and whenever the store is empty after a recomputation nothing is
\* rendered.
C5_ResetClearsAll ==
  /\ ev.kind = "reset" => points = <<>>
  /\ points = <<>> => (paths = <<>> /\ circles = <<>>)

\* Reset was pressed while points were stored and rendered.
C5_Witness ==
  /\ ev.kind = "reset"
  /\ Len(prev.points) >= 2
  /\ Len(prev.paths) >= 2
  /\ Len(prev.circles) >= 2
  /\ points = <<>>

\* C6: when all region areas are equal at a recomputation (a single point
\* included) every rendered region has the colour of interpolator value 1,
\* hue 120, whether it was created or updated in place.
C6_TieIsMaxColour ==
  (points # <<>> /\ AllAreasEqual(points)) =>
    \A n \in 1..Len(paths) : paths[n].fill = [h |-> 120, s |-> 60, l |-> 70]

\* Two regions of equal area, one updated in place and one created by the
\* last recomputation.
C6_Witness ==
  /\ Len(points) = 2
  /\ points[1] # points[2]
  /\ AllAreasEqual(points)
  /\ \E n \in 1..Len(paths) : paths[n].id \in NodeIds(prev.paths)
  /\ \E n \in 1..Len(paths) : paths[n].id \notin NodeIds(prev.paths)
  /\ \A n \in 1..Len(paths) : paths[n].fill.h = 120

\* C7: adding a point by a canvas click and then clicking the marker created
\* for it returns the store to its prior content and the render (keys,
\* region geometry, fills, marker positions) to what it was before the add.
C7_AddRemoveRoundTrip ==
  base.set =>
    /\ points = base.page.points
    /\ PathView(paths) = PathView(base.page.paths)
    /\ CircleView(circles) = CircleView(base.page.circles)

\* The round trip was made on a store of two points with different colours.
C7_Witness ==
  /\ base.set
  /\ ev.kind = "marker"
  /\ Len(base.page.points) = 2
  /\ Len(prev.points) = 3
  /\ \E m, n \in 1..Len(paths) : paths[m].fill # paths[n].fill
  /\ PathView(prev.paths) # PathView(paths)

\* C8: recomputation is idempotent: drawVoronoi run again with the store
\* unchanged leaves the rendered keys, the geometry and fill per key, the
\* marker position per key and the scale domain as the first run left them.
C8_RedrawIdempotent ==
  ev.kind = "redraw" =>
    /\ points = prev.points
    /\ PathView(paths) = PathView(prev.paths)
    /\ CircleView(circles) = CircleView(prev.circles)
    /\ domain = prev.domain

\* drawVoronoi ran again right after a recomputation that created a region
\* in a store of two points of equal area.
C8_Witness ==
  /\ ev.kind = "redraw"
  /\ Len(points) = 2
  /\ points[1] # points[2]
  /\ AllAreasEqual(points)
  /\ Len(paths) = 2
  /\ paths = prev.paths

\* C9: across a recomputation every region and marker whose key is present
\* before and after is the same visual object, each such marker still has its
\* click handler, and only keys new to the recomputation get new objects.
C9_NodesUpdatedInPlace ==
  /\ NodesPersist(prev.paths, paths)
  /\ NodesPersist(prev.circles, circles)
  /\ \A n \in 1..Len(circles) : circles[n].click = "remove"

\* A canvas click on a store of two points: two regions and two markers
\* persist, moved to new geometry, and one of each is created.
C9_Witness ==
  /\ ev.kind = "canvas"
  /\ Len(prev.points) = 2
  /\ Keys(prev.paths) = {0, 1}
  /\ Keys(paths) = {0, 1, 2}
  /\ NodeIds(prev.circles) \subseteq NodeIds(circles)
  /\ NodeIds(circles) # NodeIds(prev.circles)
  /\ PathView(prev.paths) \cap PathView(paths) = {}

\* C10 as stated: the click listener of a marker run a second time, after it
\* has removed its point, leaves the point store unchanged.
C10_SecondFiringIsNoOp ==
  ev.kind = "again" => points = prev.points

\* C10 as the code has it: the second firing is a no-op exactly when the
\* index the marker is bound to is out of range (the marker was the last one
\* and the recomputation removed it); a marker that survived is bound to the
\* point that moved to its index, and the second firing removes that point.
C10_SecondFiringByIndex ==
  ev.kind = "again" =>
    IF ev.key >= Len(prev.points)
    THEN /\ points = prev.points
         /\ PathView(paths) = PathView(prev.paths)
         /\ CircleView(circles) = CircleView(prev.circles)
    ELSE points = RemoveAt(prev.points, ev.key + 1)

\* The listener of a marker that the recomputation removed ran again on a
\* store that still holds points, and changed nothing.
C10_Witness ==
  /\ ev.kind = "again"
  /\ ev.key >= Len(prev.points)
  /\ Len(prev.points) >= 2
  /\ points = prev.points

\* The listener of a marker that survived ran again and removed a second
\* point.
C10_WitnessSurvivor ==
  /\ ev.kind = "again"
  /\ ev.key < Len(prev.points)
  /\ Len(points) = Len(prev.points) - 1

\* ------------------------------------------------------------------------
\* C11: hovering over a rendered region makes the overlay visible with the
\* area computed for that region's key in the latest recomputation, to two
\* decimal places, and the hover handler raises no error.
C11_HoverShowsArea ==
  ev.kind = "hover" =>
    /\ out.err = "none"
    /\ tooltip.visibility = "visible"
    /\ tooltip.text = <<"Area: ", cellAreas(points)[ev.key + 1], ".", 0, 0>>

\* C12: export is a pure read: in any state, the one with no points
\* included, the export handler leaves the point store, the rendered regions
\* and markers with their attributes, and the scale domain unchanged.
C12_ExportReadsOnly ==
  ev.kind = "export" =>
    /\ points = prev.points
    /\ paths = prev.paths
    /\ circles = prev.circles
    /\ domain = prev.domain

\* A diagram of two regions of different colour was exported, and the
\* downloaded document holds both.
C12_Witness ==
  /\ ev.kind = "export"
  /\ Len(points) = 2
  /\ paths[1].fill # paths[2].fill
  /\ Len(out.download[1].svg.cells) = 2
  /\ Len(out.download[1].svg.marks) = 2

\* Declarations of a namespace on a root tag.
Declarations(root, ns) ==
  {n \in 1..Len(root) : root[n].name \in {"xmlns", "xmlns:xlink"} /\ root[n].value = ns}

\* C13: the exported document begins with an XML declaration and its root
\* tag declares the graphics namespace exactly once and the link namespace
\* exactly once, whichever of the two the serialized source carried: each is
\* injected if and only if it was absent.
C13_NamespacesOnce ==
  ev.kind = "export" =>
    LET given == out.source[1]
        root  == out.download[1].svg.root
    IN  /\ out.download[1].prolog = "<?xml version=\"1.0\" standalone=\"no\"?>\r\n"
        /\ Cardinality(Declarations(root, SvgNs)) = 1
        /\ Cardinality(Declarations(root, XlinkNs)) = 1
        /\ Len(root) = Len(given) + (IF Declarations(given, SvgNs) = {} THEN 1 ELSE 0)
                                  + (IF Declarations(given, XlinkNs) = {} THEN 1 ELSE 0)

\* The source carried the graphics namespace and not the link namespace: one
\* declaration was injected, in front.
C13_Witness ==
  /\ ev.kind = "export"
  /\ Declarations(out.source[1], SvgNs) # {}
  /\ Declarations(out.source[1], XlinkNs) = {}
  /\ Len(out.download[1].svg.root) = Len(out.source[1]) + 1
  /\ out.download[1].svg.root[1] = [name |-> "xmlns:xlink", value |-> XlinkNs]

\* Hue of an area on the ramp between the smallest and the largest area, in
\* whole degrees; 120 when they are all equal.
HueOf(areas, a) ==
  LET lo == d3min(areas)
      hi == d3max(areas)
  IN  IF lo = hi THEN 120 ELSE (120 * (a - lo)) \div (hi - lo)

\* C14: after every recomputation with a non-empty store the fill of every
\* rendered region, surviving or new, is the colour of that region's own
\* current area under the current global minimum and maximum.
C14_FillFromCurrentAreas ==
  points # <<>> =>
    \A n \in 1..Len(paths) :
      paths[n].fill =
        [h |-> HueOf(cellAreas(points), cellAreas(points)[paths[n].data.index + 1]),
         s |-> 60, l |-> 70]

\* A canvas click changed the colour of a surviving region and created a
\* region of another colour.
C14_Witness ==
  /\ ev.kind = "canvas"
  /\ Len(points) >= 2
  /\ \E m \in 1..Len(prev.paths), n \in 1..Len(paths) :
       /\ prev.paths[m].id = paths[n].id
       /\ prev.paths[m].fill # paths[n].fill
  /\ \E n \in 1..Len(paths) :
       /\ paths[n].id \notin NodeIds(prev.paths)
       /\ paths[n].fill # paths[1].fill

\* The value passed to the interpolator for the region of key i, under the
\* scale domain in force.
ValueAt(i) ==
  fillValue(domain, cellAreas(points), d3min(cellAreas(points)),
            d3max(cellAreas(points)), i)

\* C15: at every recomputation with a non-empty store the scale domain has
\* positive width and every value passed to the interpolator lies in [0, 1];
\* when minArea < maxArea a region of minimum area gets 0, one of maximum
\* area gets 1, and the value does not decrease as the area grows.
C15_ScaleWithinUnit ==
  points # <<>> =>
    LET areas == cellAreas(points)
        keys  == 0..(Len(points) - 1)
    IN  /\ domain[1] < domain[2]
        /\ \A i \in keys :
             /\ ValueAt(i)[2] > 0
             /\ 0 <= ValueAt(i)[1]
             /\ ValueAt(i)[1] <= ValueAt(i)[2]
        /\ d3min(areas) < d3max(areas) =>
             /\ \A i \in keys :
                  /\ areas[i + 1] = d3min(areas) => ValueAt(i)[1] = 0
                  /\ areas[i + 1] = d3max(areas) => ValueAt(i)[1] = ValueAt(i)[2]
             /\ \A i, j \in keys :
                  areas[i + 1] <= areas[j + 1] =>
                    ValueAt(i)[1] * ValueAt(j)[2] <= ValueAt(j)[1] * ValueAt(i)[2]

\* Three regions of three different areas: values 0, strictly between, 1.
C15_Witness ==
  /\ Len(points) = 3
  /\ \E i, j, k \in 0..2 :
       /\ ValueAt(i)[1] = 0
       /\ 0 < ValueAt(j)[1]
       /\ ValueAt(j)[1] < ValueAt(j)[2]
       /\ ValueAt(k)[1] = ValueAt(k)[2]
  /\ {paths[n].fill.h : n \in 1..3} = {0, 60, 120}

\* Keys whose seed the geometry gives no polygon.
NoPolygonKeys == {i \in 0..(Len(points) - 1) : ~cellPolygon(points, i).ok}

\* C16: when the geometry yields no polygon for a point no error is raised:
\* that key is given area 0, the 0 takes part in the minimum and maximum that
\* fix the scale for all regions, and a region object and a marker are still
\* rendered for the key.
C16_NoPolygonIsAreaZero ==
  /\ ev.kind \in {"canvas", "marker", "again", "reset", "redraw"} => out.err = "none"
  /\ \A i \in NoPolygonKeys :
       /\ domain[1] = 0
       /\ domain = scaleDomain(0, d3max(cellAreas(points)))
       /\ \E n \in 1..Len(paths) :
            /\ paths[n].data.index = i
            /\ ~paths[n].d.ok
            /\ paths[n].over[i + 1] = 0
            /\ paths[n].fill.h = 0
       /\ \E n \in 1..Len(circles) :
            /\ circles[n].data.index = i
            /\ <<circles[n].cx, circles[n].cy>> = points[i + 1]

\* The third point was put on the first: it has no polygon, and the two
\* other regions have different areas.
C16_Witness ==
  /\ ev.kind = "canvas"
  /\ Len(points) = 3
  /\ points[3] = points[1]
  /\ NoPolygonKeys = {2}
  /\ paths[1].over = paths[3].over
  /\ paths[1].over[1] # paths[1].over[2]
  /\ paths[1].over[3] = 0

\* C17: when the point at index k is removed from a store of n points and at
\* least one remains, the objects destroyed are exactly the region and the
\* marker with key n-1; the objects with keys k..n-2 survive, rebound to the
\* points formerly at k+1..n-1, and those with keys below k stay bound to the
\* same points.
C17_LastKeyIsDestroyed ==
  (/\ ev.kind \in {"marker", "again"}
   /\ Len(points) = Len(prev.points) - 1
   /\ Len(points) >= 1) =>
    LET n == Len(prev.points)
        k == ev.key
        formerly(key) == prev.points[IF key < k THEN key + 1 ELSE key + 2]
    IN  /\ NodeIds(prev.paths) \ NodeIds(paths) = NodesAt(prev.paths, n - 1)
        /\ NodeIds(prev.circles) \ NodeIds(circles) = NodesAt(prev.circles, n - 1)
        /\ NodesAt(prev.paths, n - 1) # {}
        /\ NodesAt(prev.circles, n - 1) # {}
        /\ \A key \in 0..(n - 2) :
             /\ NodesAt(paths, key) = NodesAt(prev.paths, key)
             /\ NodesAt(circles, key) = NodesAt(prev.circles, key)
             /\ \A m \in 1..Len(paths) :
                  paths[m].data.index = key => paths[m].data.point = formerly(key)
             /\ \A m \in 1..Len(circles) :
                  circles[m].data.index = key =>
                    /\ circles[m].data.point = formerly(key)
                    /\ <<circles[m].cx, circles[m].cy>> = formerly(key)

\* The first of three distinct points was removed: the objects of keys 0 and
\* 1 now show the points formerly at indices 1 and 2.
C17_Witness ==
  /\ ev.kind = "marker"
  /\ ev.key = 0
  /\ Len(prev.points) = 3
  /\ \A i, j \in 1..3 : i # j => prev.points[i] # prev.points[j]
  /\ NodeIds(circles) = NodesAt(prev.circles, 0) \cup NodesAt(prev.circles, 1)
  /\ circles[1].data.point = prev.points[2]
  /\ circles[2].data.point = prev.points[3]

====
